---- MODULE Spec2Model ----
(***************************************************************************)
(* Model of trusted_applet/cmd/console.go: the command registry (Add),     *)
(* the help formatter (Help), the matcher/dispatcher (Handle) and the      *)
(* console loop (Console).                                                 *)
(*                                                                         *)
(* Strings that the code inspects (command names, input lines) are         *)
(* sequences of one-character strings, so that equality, byte-wise         *)
(* ordering and regular-expression matching are computed.  Texts the code  *)
(* only passes along (Syntax, Help, handler results, the banner) are       *)
(* sequences of opaque tokens.                                             *)
(***************************************************************************)
EXTENDS Integers, Sequences, FiniteSets, TLC

VARIABLES
    cmds,      \* var cmds map[string]*Cmd: a function from names to Cmd records
    adds,      \* history: the arguments of the Add calls so far, in order
    lastHelp,  \* history: <<>> or <<[text, nadds]>>, the latest Help return value
    pc,        \* position of Console: "init", "read", "handle", "fn", "done"
    out,       \* what has been written to the session (term), one entry per write
    logs,      \* what has been logged through klog.Errorf, one entry per call
    reads,     \* number of term.ReadLine calls (by the Console loop and by confirm)
    s,         \* Console's local s: the line of the latest read
    err,       \* Console's local err: the latest read error or Handle return
    match,     \* Handle's locals match and arg while the handler runs: <<>> or <<[cmd, arg]>>
    fnret,     \* history: <<>> or <<[res, err]>>, what the latest handler call returned
    prompt,    \* the prompt of the session (term.SetPrompt)
    confirmed  \* history: <<>> or <<record>>, the latest call of confirm by the running handler

vars == <<cmds, adds, lastHelp, pc, out, logs, reads, s, err, match, fnret, prompt, confirmed>>

(***************************************************************************)
(* Bounds of the model.                                                    *)
(***************************************************************************)
MaxAdds == 3
MaxReads == 2

(***************************************************************************)
(* Characters and strings.                                                 *)
(***************************************************************************)
Digits == {"2", "4"}
Letters == {"a", "b", "e", "h", "l", "n", "o", "p", "r", "s", "t", "x", "y"}
Chars == {" ", "-"} \cup Digits \cup Letters

\* The byte value of a character (Go compares strings byte-wise).
Ord ==
    [c \in Chars |->
        CASE c = " " -> 32 [] c = "-" -> 45 [] c = "2" -> 50 [] c = "4" -> 52
          [] c = "a" -> 97 [] c = "b" -> 98 [] c = "e" -> 101 [] c = "h" -> 104
          [] c = "l" -> 108 [] c = "n" -> 110 [] c = "o" -> 111 [] c = "p" -> 112
          [] c = "r" -> 114 [] c = "s" -> 115 [] c = "t" -> 116 [] c = "x" -> 120
          [] c = "y" -> 121]

\* a < b on Go strings: byte-wise lexicographic, a proper prefix is smaller.
RECURSIVE StrLess(_, _)
StrLess(a, b) ==
    IF b = <<>> THEN FALSE
    ELSE IF a = <<>> THEN TRUE
    ELSE IF Ord[a[1]] # Ord[b[1]] THEN Ord[a[1]] < Ord[b[1]]
    ELSE StrLess(Tail(a), Tail(b))

\* sort.Strings: insertion of x into an ascending sequence, then the sort.
RECURSIVE SortInsert(_, _)
SortInsert(x, sorted) ==
    IF sorted = <<>> THEN <<x>>
    ELSE IF StrLess(sorted[1], x) THEN <<sorted[1]>> \o SortInsert(x, Tail(sorted))
    ELSE <<x>> \o sorted

RECURSIVE SortStrings(_)
SortStrings(names) ==
    IF names = <<>> THEN <<>>
    ELSE SortInsert(names[1], SortStrings(Tail(names)))

(***************************************************************************)
(* Errors.  io.EOF is a single sentinel compared by identity; the error    *)
(* made by errors.New in Handle is a fresh value, never equal to io.EOF.   *)
(***************************************************************************)
Nil == "nil"
EOF == "io.EOF"
\* errors.New("unknown command, type help") with back quotes around help
ErrUnknownCommand == "unknown command, type help"
ErrRead == "read error"
ErrFn == "handler error"

(***************************************************************************)
(* Regular expressions, as far as the registered patterns need them: a     *)
(* pattern is a sequence of items, a literal character or a capturing      *)
(* group (cls+) over a character class, optionally anchored by ^ and $.    *)
(***************************************************************************)
Lit(c) == [t |-> "lit", c |-> c, cls |-> {}]
Grp(cls) == [t |-> "grp", c |-> "", cls |-> cls]
Regexp(bol, items, eol) == [bol |-> bol, items |-> items, eol |-> eol]

NoSubmatch == [ok |-> FALSE, end |-> 0, caps |-> <<>>]

\* The longest run of characters of cls in line from position pos.
RECURSIVE RunLen(_, _, _)
RunLen(cls, line, pos) ==
    IF pos <= Len(line) /\ line[pos] \in cls THEN 1 + RunLen(cls, line, pos + 1)
    ELSE 0

\* Match items k.. of re at position pos of line: preferred match first (a
\* group is greedy and gives characters back one at a time).
RECURSIVE MatchHere(_, _, _, _)
RECURSIVE MatchGroup(_, _, _, _, _)
MatchHere(re, k, line, pos) ==
    IF k > Len(re.items)
    THEN IF re.eol /\ pos # Len(line) + 1 THEN NoSubmatch
         ELSE [ok |-> TRUE, end |-> pos, caps |-> <<>>]
    ELSE IF re.items[k].t = "lit"
    THEN IF pos <= Len(line) /\ line[pos] = re.items[k].c
         THEN MatchHere(re, k + 1, line, pos + 1)
         ELSE NoSubmatch
    ELSE MatchGroup(re, k, line, pos, RunLen(re.items[k].cls, line, pos))

MatchGroup(re, k, line, pos, n) ==
    IF n < 1 THEN NoSubmatch
    ELSE LET rest == MatchHere(re, k + 1, line, pos + n)
         IN  IF rest.ok
             THEN [ok |-> TRUE, end |-> rest.end,
                   caps |-> <<SubSeq(line, pos, pos + n - 1)>> \o rest.caps]
             ELSE MatchGroup(re, k, line, pos, n - 1)

\* The leftmost match starting at position start or later.
RECURSIVE MatchFrom(_, _, _)
MatchFrom(re, line, start) ==
    IF start > Len(line) + 1 THEN <<>>
    ELSE LET here == MatchHere(re, 1, line, start)
         IN  IF here.ok THEN <<SubSeq(line, start, here.end - 1)>> \o here.caps
             ELSE IF re.bol THEN <<>>
             ELSE MatchFrom(re, line, start + 1)

\* Regexp.FindStringSubmatch: <<>> (nil) when there is no match, else the
\* text of the leftmost match followed by the text of each capturing group.
FindStringSubmatch(re, line) == MatchFrom(re, line, 1)

(***************************************************************************)
(* Commands.  Pattern is <<>> for a nil *regexp.Regexp, else <<re>>.       *)
(***************************************************************************)
Cmd(name, args, pattern, syntax, help, fn) ==
    [Name |-> name, Args |-> args, Pattern |-> pattern,
     Syntax |-> syntax, Help |-> help, Fn |-> fn]

sHelp == <<"h", "e", "l", "p">>
sReboot == <<"r", "e", "b", "o", "o", "t">>
sSetX == <<"s", "e", "t", "-", "x">>
sAny == <<"a", "n", "y">>
sSet == <<"s", "e", "t">>
sSet42 == <<"s", "e", "t", " ", "4", "2">>

\* ^set (\d+)$
reSet == Regexp(TRUE, <<Lit("s"), Lit("e"), Lit("t"), Lit(" "), Grp(Digits)>>, TRUE)
\* ([a-z]+)e([a-z]+)
reWord == Regexp(FALSE, <<Grp(Letters), Lit("e"), Grp(Letters)>>, FALSE)
\* ^help$
reHelp == Regexp(TRUE, <<Lit("h"), Lit("e"), Lit("l"), Lit("p")>>, TRUE)

cmdHelp == Cmd(sHelp, 0, <<>>, <<>>, <<"this help">>, "helpFn")
cmdReboot == Cmd(sReboot, 0, <<>>, <<>>, <<"reset device">>, "rebootFn")
cmdSetX == Cmd(sSetX, 1, <<reSet>>, <<"set <n>">>, <<"set x">>, "setFn")
cmdAny == Cmd(sAny, 2, <<reWord>>, <<"<a>e<b>">>, <<"split at e">>, "anyFn")
cmdHelp2 == Cmd(sHelp, 1, <<reHelp>>, <<"help">>, <<"other help">>, "help2Fn")

\* The commands that the callers of Add register.
Catalog == {cmdHelp, cmdReboot, cmdSetX, cmdAny, cmdHelp2}

\* The commands that a running handler registers.
HandlerAdds == {cmdHelp2}

\* The lines an operator types.
Lines == {sHelp, sSet42, sSet, sSetX}

\* What a handler returns: (res, err).
FnResults ==
    { [res |-> <<"ok">>, err |-> Nil],
      [res |-> <<"partial">>, err |-> ErrFn],
      [res |-> <<>>, err |-> EOF] }

\* var Banner string, set by the code that starts the console.
Banner == <<"banner">>

\* term.Escape.Cyan, term.Escape.Red and term.Escape.Reset
EscCyan == "ESC[36m"
EscRed == "ESC[31m"
EscReset == "ESC[0m"

\* string(term.Escape.Red) + "> " + string(term.Escape.Reset)
RedPrompt == <<EscRed, "> ", EscReset>>

\* The prompt confirm asks with.
ConfirmPrompt == <<"Are you sure? (y/n) ">>

\* The prompt of a terminal that another caller hands to Console:
\* term.NewTerminal(c, "") as it is made.
TermPrompts == {<<>>}

sY == <<"y">>

\* What term.ReadLine returns to confirm: (line, err); a read can fail and
\* still return the line (term.ErrPasteIndicator).
ConfirmReads ==
    {[line |-> l, err |-> Nil] : l \in {sY, <<>>, sHelp}}
        \cup {[line |-> <<>>, err |-> EOF], [line |-> sY, err |-> ErrRead]}

\* The orders in which a range over a map with key set S can visit its keys.
\* Variant: a range over a map visits the keys in ascending order.
RangeOrders_ascending(S) ==
    {o \in [1..Cardinality(S) -> S] :
        \A i, j \in 1..Cardinality(S) : i < j => StrLess(o[i], o[j])}

RangeOrders(S) ==
    {o \in [1..Cardinality(S) -> S] : \A i, j \in 1..Cardinality(S) : o[i] = o[j] => i = j}

(***************************************************************************)
(* Add                                                                     *)
(***************************************************************************)
\* Variant: an existing entry is kept instead of overwritten.
AddTo_keepFirst(m, cmd) ==
    [n \in DOMAIN m \cup {cmd.Name} |-> IF n \in DOMAIN m THEN m[n] ELSE cmd]

AddTo(m, cmd) ==
    [n \in DOMAIN m \cup {cmd.Name} |-> IF n = cmd.Name THEN cmd ELSE m[n]]

\* Add is called by the code that sets the console up, or by a running handler.
Add(cmd) ==
    /\ pc = "init" \/ (pc = "fn" /\ cmd \in HandlerAdds)
    /\ Len(adds) < MaxAdds
    /\ cmds' = AddTo(cmds, cmd)
    /\ adds' = Append(adds, cmd)
    /\ UNCHANGED <<lastHelp, pc, out, logs, reads, s, err, match, fnret, prompt, confirmed>>

(***************************************************************************)
(* Help                                                                    *)
(***************************************************************************)
\* fmt.Fprintf(t, "%s\t%s\t # %s\n", Name, Syntax, Help): the cells of one row
\* as handed to the tabwriter (its column padding is not modelled).
HelpRow(cmd) == cmd.Name \o <<"\t">> \o cmd.Syntax \o <<"\t", " # ">> \o cmd.Help \o <<"\n">>

RECURSIVE HelpRows(_, _)
HelpRows(m, names) ==
    IF names = <<>> THEN <<>>
    ELSE HelpRow(m[names[1]]) \o HelpRows(m, Tail(names))

\* Variant: the names are not sorted.
HelpText_noSort(m, order) ==
    <<EscCyan>> \o HelpRows(m, order) \o <<EscReset>>

\* The string Help returns when the range over cmds visits the keys in order.
HelpText(m, order) ==
    <<EscCyan>> \o HelpRows(m, SortStrings(order)) \o <<EscReset>>

\* A call of Help by the code that sets the console up; the range over cmds
\* visits the keys in any order.
Help ==
    /\ pc = "init"
    /\ \E order \in RangeOrders(DOMAIN cmds) :
          lastHelp' = <<[text |-> HelpText(cmds, order), nadds |-> Len(adds)]>>
    /\ UNCHANGED <<cmds, adds, pc, out, logs, reads, s, err, match, fnret, prompt, confirmed>>

(***************************************************************************)
(* Handle                                                                  *)
(***************************************************************************)
\* Variant: the number of captured groups is not compared with Args.
RECURSIVE Scan_noArgs(_, _, _, _)
Scan_noArgs(m, order, i, line) ==
    IF i > Len(order) THEN <<>>
    ELSE LET cmd == m[order[i]]
         IN  IF cmd.Pattern = <<>>
             THEN IF cmd.Name = line THEN <<[cmd |-> cmd, arg |-> <<>>]>>
                  ELSE Scan_noArgs(m, order, i + 1, line)
             ELSE LET sub == FindStringSubmatch(cmd.Pattern[1], line)
                  IN  IF Len(sub) > 0
                      THEN <<[cmd |-> cmd, arg |-> Tail(sub)]>>
                      ELSE Scan_noArgs(m, order, i + 1, line)

\* Variant: a command matched by name gets the line as its argument.
RECURSIVE Scan_lineAsArg(_, _, _, _)
Scan_lineAsArg(m, order, i, line) ==
    IF i > Len(order) THEN <<>>
    ELSE LET cmd == m[order[i]]
         IN  IF cmd.Pattern = <<>>
             THEN IF cmd.Name = line THEN <<[cmd |-> cmd, arg |-> <<line>>]>>
                  ELSE Scan_lineAsArg(m, order, i + 1, line)
             ELSE LET sub == FindStringSubmatch(cmd.Pattern[1], line)
                  IN  IF Len(sub) > 0 /\ Len(sub) - 1 = cmd.Args
                      THEN <<[cmd |-> cmd, arg |-> Tail(sub)]>>
                      ELSE Scan_lineAsArg(m, order, i + 1, line)

\* Variant: arg keeps the full-match group (m instead of m[1:]).
RECURSIVE Scan_fullMatchArg(_, _, _, _)
Scan_fullMatchArg(m, order, i, line) ==
    IF i > Len(order) THEN <<>>
    ELSE LET cmd == m[order[i]]
         IN  IF cmd.Pattern = <<>>
             THEN IF cmd.Name = line THEN <<[cmd |-> cmd, arg |-> <<>>]>>
                  ELSE Scan_fullMatchArg(m, order, i + 1, line)
             ELSE LET sub == FindStringSubmatch(cmd.Pattern[1], line)
                  IN  IF Len(sub) > 0 /\ Len(sub) - 1 = cmd.Args
                      THEN <<[cmd |-> cmd, arg |-> sub]>>
                      ELSE Scan_fullMatchArg(m, order, i + 1, line)

\* Variant: at most Args captured groups are accepted.
RECURSIVE Scan_argsAtMost(_, _, _, _)
Scan_argsAtMost(m, order, i, line) ==
    IF i > Len(order) THEN <<>>
    ELSE LET cmd == m[order[i]]
         IN  IF cmd.Pattern = <<>>
             THEN IF cmd.Name = line THEN <<[cmd |-> cmd, arg |-> <<>>]>>
                  ELSE Scan_argsAtMost(m, order, i + 1, line)
             ELSE LET sub == FindStringSubmatch(cmd.Pattern[1], line)
                  IN  IF Len(sub) > 0 /\ Len(sub) - 1 <= cmd.Args
                      THEN <<[cmd |-> cmd, arg |-> Tail(sub)]>>
                      ELSE Scan_argsAtMost(m, order, i + 1, line)

\* Variant: the name is compared for every command, pattern or not.
RECURSIVE Scan_nameFirst(_, _, _, _)
Scan_nameFirst(m, order, i, line) ==
    IF i > Len(order) THEN <<>>
    ELSE LET cmd == m[order[i]]
         IN  IF cmd.Name = line THEN <<[cmd |-> cmd, arg |-> <<>>]>>
             ELSE IF cmd.Pattern = <<>> THEN Scan_nameFirst(m, order, i + 1, line)
             ELSE LET sub == FindStringSubmatch(cmd.Pattern[1], line)
                  IN  IF Len(sub) > 0 /\ Len(sub) - 1 = cmd.Args
                      THEN <<[cmd |-> cmd, arg |-> Tail(sub)]>>
                      ELSE Scan_nameFirst(m, order, i + 1, line)

\* The loop of Handle over cmds, visiting the keys from order[i] on: <<>> when
\* match stays nil, else <<[cmd, arg]>> for the first command that matches.
RECURSIVE Scan(_, _, _, _)
Scan(m, order, i, line) ==
    IF i > Len(order) THEN <<>>
    ELSE LET cmd == m[order[i]]
         IN  IF cmd.Pattern = <<>>
             THEN IF cmd.Name = line THEN <<[cmd |-> cmd, arg |-> <<>>]>>
                  ELSE Scan(m, order, i + 1, line)
             ELSE LET sub == FindStringSubmatch(cmd.Pattern[1], line)
                  IN  IF Len(sub) > 0 /\ Len(sub) - 1 = cmd.Args
                      THEN <<[cmd |-> cmd, arg |-> Tail(sub)]>>
                      ELSE Scan(m, order, i + 1, line)

\* Variant: any error of Handle ends the loop.
AfterHandle_exitOnError(e) ==
    /\ err' = e
    /\ IF e = Nil THEN pc' = "read" /\ logs' = logs
       ELSE pc' = "done" /\ logs' = Append(logs, <<"command error: ", e>>)

\* Variant: io.EOF from Handle is logged like any other error.
AfterHandle_noEOF(e) ==
    /\ err' = e
    /\ IF e = Nil THEN pc' = "read" /\ logs' = logs
       ELSE pc' = "read" /\ logs' = Append(logs, <<"command error: ", e>>)

\* Variant: an error of Handle is dropped without a log entry.
AfterHandle_noLog(e) ==
    /\ err' = e
    /\ logs' = logs
    /\ IF e = EOF THEN pc' = "done" ELSE pc' = "read"

\* Console after Handle returned e (lines 146-152).
AfterHandle(e) ==
    /\ err' = e
    /\ IF e = Nil THEN pc' = "read" /\ logs' = logs
       ELSE IF e = EOF THEN pc' = "done" /\ logs' = logs
       ELSE pc' = "read" /\ logs' = Append(logs, <<"command error: ", e>>)

\* Variant: the handler is started and Handle does not wait for it.
HandleMatch_async ==
    /\ pc = "handle"
    /\ \E order \in RangeOrders(DOMAIN cmds) :
          LET found == Scan(cmds, order, 1, s)
          IN  IF found = <<>>
              THEN /\ AfterHandle(ErrUnknownCommand)
                   /\ UNCHANGED <<out, match>>
              ELSE /\ match' = found
                   /\ pc' = "read"
                   /\ UNCHANGED <<out, logs, err>>
    /\ UNCHANGED <<cmds, adds, lastHelp, reads, s, fnret, prompt, confirmed>>

\* Handle up to the call of the handler; when nothing matches, Handle returns
\* the unknown-command error to Console.
HandleMatch ==
    /\ pc = "handle"
    /\ \E order \in RangeOrders(DOMAIN cmds) :
          LET found == Scan(cmds, order, 1, s)
          IN  IF found = <<>>
              THEN /\ AfterHandle(ErrUnknownCommand)
                   /\ UNCHANGED <<out, match>>
              ELSE /\ match' = found
                   /\ pc' = "fn"
                   /\ UNCHANGED <<out, logs, err>>
    /\ UNCHANGED <<cmds, adds, lastHelp, reads, s, fnret, prompt, confirmed>>

\* Variant: the result is written whether or not the handler failed.
HandleReturn_writeAlways(r) ==
    /\ pc = "fn"
    /\ out' = Append(out, r.res \o <<"\n">>)
    /\ AfterHandle(r.err)
    /\ match' = <<>>
    /\ fnret' = <<r>>
    /\ confirmed' = <<>>
    /\ UNCHANGED <<cmds, adds, lastHelp, reads, s, prompt>>

\* Variant: a command is removed from the registry once its handler returned.
HandleReturn_unregister(r) ==
    /\ pc = "fn"
    /\ IF r.err # Nil
       THEN out' = out
       ELSE out' = Append(out, r.res \o <<"\n">>)
    /\ AfterHandle(r.err)
    /\ match' = <<>>
    /\ fnret' = <<r>>
    /\ confirmed' = <<>>
    /\ cmds' = [n \in DOMAIN cmds \ {match[1].cmd.Name} |-> cmds[n]]
    /\ UNCHANGED <<adds, lastHelp, reads, s, prompt>>

\* The handler returns (r.res, r.err); Handle writes the result or passes the
\* error on, and Console acts on what Handle returned.
HandleReturn(r) ==
    /\ pc = "fn"
    /\ IF r.err # Nil
       THEN out' = out
       ELSE out' = Append(out, r.res \o <<"\n">>)
    /\ AfterHandle(r.err)
    /\ match' = <<>>
    /\ fnret' = <<r>>
    /\ confirmed' = <<>>
    /\ UNCHANGED <<cmds, adds, lastHelp, reads, s, prompt>>

(***************************************************************************)
(* Console                                                                 *)
(***************************************************************************)
\* Variant: the help listing is written before the banner.
ConsoleStart_helpFirst(p) ==
    /\ pc = "init"
    /\ prompt' = p
    /\ \E order \in RangeOrders(DOMAIN cmds) :
          /\ out' = out \o << HelpText(cmds, order) \o <<"\n">>, Banner \o <<"\n", "\n">> >>
          /\ lastHelp' = <<[text |-> HelpText(cmds, order), nadds |-> Len(adds)]>>
    /\ pc' = "read"
    /\ UNCHANGED <<cmds, adds, logs, reads, s, err, match, fnret, confirmed>>

\* Console, called with a terminal whose prompt is p, up to the loop: the two
\* writes, the second of what Help returns.
ConsoleStart(p) ==
    /\ pc = "init"
    /\ prompt' = p
    /\ \E order \in RangeOrders(DOMAIN cmds) :
          /\ out' = out \o << Banner \o <<"\n", "\n">>, HelpText(cmds, order) \o <<"\n">> >>
          /\ lastHelp' = <<[text |-> HelpText(cmds, order), nadds |-> Len(adds)]>>
    /\ pc' = "read"
    /\ UNCHANGED <<cmds, adds, logs, reads, s, err, match, fnret, confirmed>>

\* SerialConsole: a new terminal, the red prompt, then Console.
SerialConsole == ConsoleStart(RedPrompt)

(***************************************************************************)
(* confirm                                                                 *)
(***************************************************************************)
\* Variant: the error of the read is not looked at.
Confirm_ignoreErr(r) ==
    /\ pc = "fn"
    /\ reads < MaxReads
    /\ reads' = reads + 1
    /\ prompt' = RedPrompt
    /\ confirmed' = <<[before |-> prompt, asked |-> ConfirmPrompt,
                        line |-> r.line, err |-> r.err,
                        ret |-> r.line = sY]>>
    /\ UNCHANGED <<cmds, adds, lastHelp, pc, out, logs, s, err, match, fnret>>

\* A running handler calls confirm and term.ReadLine returns (r.line, r.err):
\* the prompt is set to the question, one line is read, and the deferred
\* SetPrompt runs on return.
Confirm(r) ==
    /\ pc = "fn"
    /\ reads < MaxReads
    /\ reads' = reads + 1
    /\ prompt' = RedPrompt
    /\ confirmed' = <<[before |-> prompt, asked |-> ConfirmPrompt,
                        line |-> r.line, err |-> r.err,
                        ret |-> IF r.err # Nil THEN FALSE ELSE r.line = sY]>>
    /\ UNCHANGED <<cmds, adds, lastHelp, pc, out, logs, s, err, match, fnret>>

\* Variant: io.EOF from the read is logged like any other read error.
ReadLine_noEOF(r) ==
    /\ pc = "read"
    /\ reads < MaxReads
    /\ reads' = reads + 1
    /\ s' = r.line
    /\ err' = r.err
    /\ IF r.err # Nil
       THEN pc' = "read" /\ logs' = Append(logs, <<"readline error: ", r.err>>)
       ELSE pc' = "handle" /\ logs' = logs
    /\ UNCHANGED <<cmds, adds, lastHelp, out, match, fnret, prompt, confirmed>>

\* Variant: the continue after a read error is missing.
ReadLine_noContinue(r) ==
    /\ pc = "read"
    /\ reads < MaxReads
    /\ reads' = reads + 1
    /\ s' = r.line
    /\ err' = r.err
    /\ IF r.err = EOF THEN pc' = "done" /\ logs' = logs
       ELSE IF r.err # Nil
       THEN pc' = "handle" /\ logs' = Append(logs, <<"readline error: ", r.err>>)
       ELSE pc' = "handle" /\ logs' = logs
    /\ UNCHANGED <<cmds, adds, lastHelp, out, match, fnret, prompt, confirmed>>

\* term.ReadLine returns (r.line, r.err), and Console's two checks of err.
ReadLine(r) ==
    /\ pc = "read"
    /\ reads < MaxReads
    /\ reads' = reads + 1
    /\ s' = r.line
    /\ err' = r.err
    /\ IF r.err = EOF THEN pc' = "done" /\ logs' = logs
       ELSE IF r.err # Nil
       THEN pc' = "read" /\ logs' = Append(logs, <<"readline error: ", r.err>>)
       ELSE pc' = "handle" /\ logs' = logs
    /\ UNCHANGED <<cmds, adds, lastHelp, out, match, fnret, prompt, confirmed>>

ReadResults ==
    {[line |-> l, err |-> Nil] : l \in Lines}
        \cup {[line |-> <<>>, err |-> EOF], [line |-> <<>>, err |-> ErrRead]}

(***************************************************************************)
(* The program.                                                            *)
(***************************************************************************)
Init ==
    /\ cmds = <<>>
    /\ adds = <<>>
    /\ lastHelp = <<>>
    /\ pc = "init"
    /\ out = <<>>
    /\ logs = <<>>
    /\ reads = 0
    /\ s = <<>>
    /\ err = Nil
    /\ match = <<>>
    /\ fnret = <<>>
    /\ prompt = <<>>
    /\ confirmed = <<>>

Next ==
    \/ \E cmd \in Catalog : Add(cmd)
    \/ Help
    \/ \E p \in TermPrompts : ConsoleStart(p)
    \/ SerialConsole
    \/ \E r \in ConfirmReads : Confirm(r)
    \/ \E r \in ReadResults : ReadLine(r)
    \/ HandleMatch
    \/ \E r \in FnResults : HandleReturn(r)

Spec == Init /\ [][Next]_vars

(***************************************************************************)
(* Vocabulary of the properties.                                           *)
(***************************************************************************)
\* The loop of Console has been entered and has not been left.
Running == pc \in {"read", "handle", "fn"}

\* This step is a return of term.ReadLine in the loop.
ReadStep == pc = "read" /\ reads' = reads + 1

\* This step is a return of Handle to Console.
HandleReturnStep == pc \in {"handle", "fn"} /\ pc' \in {"read", "done"}

\* cmd is a match for line: its name when it has no pattern, else its pattern
\* with Args captured groups.
CmdMatches(cmd, line) ==
    IF cmd.Pattern = <<>> THEN cmd.Name = line
    ELSE LET sub == FindStringSubmatch(cmd.Pattern[1], line)
         IN  sub # <<>> /\ Len(sub) - 1 = cmd.Args

IsPrefix(a, b) == Len(a) <= Len(b) /\ SubSeq(b, 1, Len(a)) = a
IsSuffix(a, b) == Len(a) <= Len(b) /\ SubSeq(b, Len(b) - Len(a) + 1, Len(b)) = a

\* No other registered name is a prefix or a suffix of name n, or has n as one.
NoNameCollision(n) ==
    \A o \in DOMAIN cmds \ {n} :
        ~(IsPrefix(o, n) \/ IsSuffix(o, n) \/ IsPrefix(n, o) \/ IsSuffix(n, o))

\* The registered names in ascending order.
AscendingNames ==
    CHOOSE q \in RangeOrders(DOMAIN cmds) :
        \A i, j \in 1..Len(q) : i < j => StrLess(q[i], q[j])

\* The index of the latest Add call for name n.
LatestAdd(n) ==
    CHOOSE i \in 1..Len(adds) :
        /\ adds[i].Name = n
        /\ \A j \in (i + 1)..Len(adds) : adds[j].Name # n

(***************************************************************************)
(* C1: Console leaves the loop only on a step where the read or Handle     *)
(* returned io.EOF; after the unknown-command error, a handler error or a  *)
(* read error the loop is still running, at its next read.                 *)
(***************************************************************************)
C1_ExitOnlyOnEOF ==
    [][ Running =>
          /\ pc' = "done" => err' = EOF /\ (ReadStep \/ HandleReturnStep)
          /\ (ReadStep \/ HandleReturnStep) /\ err' \in {ErrUnknownCommand, ErrFn, ErrRead}
                => pc' = "read" ]_vars

\* The loop is at a read after a read error and an unknown command.
C1_Witness ==
    /\ pc = "read"
    /\ err = ErrUnknownCommand
    /\ logs = << <<"readline error: ", ErrRead>>, <<"command error: ", ErrUnknownCommand>> >>

(***************************************************************************)
(* C2: a read that returns io.EOF ends Console: no handler is called,      *)
(* nothing is written or logged, and no read follows.                      *)
(***************************************************************************)
C2_ReadEOFTerminates ==
    [][ /\ ReadStep /\ err' = EOF
            => pc' = "done" /\ out' = out /\ logs' = logs /\ match' = <<>> /\ fnret' = fnret
        /\ pc = "done" => pc' = "done" /\ reads' = reads ]_vars

\* Console has ended on a read of io.EOF after a line whose handler wrote a result.
C2_Witness ==
    /\ pc = "done"
    /\ err = EOF
    /\ s = <<>>
    /\ reads >= 2
    /\ Len(out) = 3

(***************************************************************************)
(* C3: a read that fails with an error other than io.EOF calls no Handle   *)
(* and no handler, writes nothing, and leaves the loop at its next read.   *)
(***************************************************************************)
C3_ReadErrorContinues ==
    [][ ReadStep /\ err' \notin {Nil, EOF}
            => /\ pc' = "read"
               /\ out' = out
               /\ match' = <<>>
               /\ fnret' = fnret
               /\ logs' = Append(logs, <<"readline error: ", err'>>) ]_vars

\* The loop is at a read again after a failed read.
C3_Witness ==
    /\ pc = "read"
    /\ err = ErrRead
    /\ reads >= 1

(***************************************************************************)
(* C4: when Handle returns io.EOF, Console ends without another read; when *)
(* it returns another error, the error is logged and the loop is at its    *)
(* next read.                                                              *)
(***************************************************************************)
C4_HandleEOFTerminates ==
    [][ /\ HandleReturnStep /\ err' = EOF => pc' = "done" /\ reads' = reads /\ logs' = logs
        /\ HandleReturnStep /\ err' \notin {Nil, EOF}
              => pc' = "read" /\ logs' = Append(logs, <<"command error: ", err'>>)
        /\ pc = "done" => reads' = reads ]_vars

\* Console has ended because a handler returned io.EOF.
C4_Witness ==
    /\ pc = "done"
    /\ err = EOF
    /\ s # <<>>
    /\ fnret # <<>>
    /\ fnret[1].err = EOF

(***************************************************************************)
(* C5: for a line that no registered command matches, Handle returns the   *)
(* unknown-command error, calls no handler and writes nothing.             *)
(***************************************************************************)
C5_UnknownCommand ==
    [][ pc = "handle" /\ (\A n \in DOMAIN cmds : ~CmdMatches(cmds[n], s))
            => \/ /\ err' = ErrUnknownCommand
                  /\ pc' = "read"
                  /\ match' = <<>>
                  /\ fnret' = fnret
                  /\ out' = out ]_vars

\* Handle has returned the unknown-command error for the line help, with a
\* pattern command registered whose pattern matches it with the wrong count.
C5_Witness ==
    /\ pc = "read"
    /\ err = ErrUnknownCommand
    /\ s = sHelp
    /\ sHelp \in DOMAIN cmds
    /\ cmds[sHelp].Pattern # <<>>

(***************************************************************************)
(* C6, as stated: a line equal to the name of a registered command without *)
(* pattern, no other registered name being a prefix or suffix collision,   *)
(* is dispatched to that command's handler with zero arguments.            *)
(***************************************************************************)
C6_Original ==
    [][ \A n \in DOMAIN cmds :
          pc = "handle" /\ cmds[n].Pattern = <<>> /\ n = s /\ NoNameCollision(n)
            => pc' = "fn" /\ match' = <<[cmd |-> cmds[n], arg |-> <<>>]>> ]_vars

(***************************************************************************)
(* C6, amended: the same, provided also that no registered pattern command *)
(* matches the line with its Args captured groups.                         *)
(***************************************************************************)
C6_ExactNameDispatch ==
    [][ \A n \in DOMAIN cmds :
          /\ pc = "handle" /\ cmds[n].Pattern = <<>> /\ n = s /\ NoNameCollision(n)
          /\ \A o \in DOMAIN cmds : cmds[o].Pattern # <<>> => ~CmdMatches(cmds[o], s)
          => pc' = "fn" /\ match' = <<[cmd |-> cmds[n], arg |-> <<>>]>> ]_vars

\* The handler of help runs for the line help, with zero arguments, next to
\* a registered pattern command.
C6_Witness ==
    /\ pc = "fn"
    /\ s = sHelp
    /\ match[1].cmd.Fn = "helpFn"
    /\ match[1].arg = <<>>
    /\ sSetX \in DOMAIN cmds
    /\ sAny \notin DOMAIN cmds

(***************************************************************************)
(* C7, as stated: a line that a registered pattern command matches with    *)
(* Args captured groups is dispatched to that command's handler with the   *)
(* captures, in order, without the full match.                             *)
(***************************************************************************)
C7_Original ==
    [][ \A n \in DOMAIN cmds :
          pc = "handle" /\ cmds[n].Pattern # <<>> /\ CmdMatches(cmds[n], s)
            => /\ pc' = "fn"
               /\ match' = <<[cmd |-> cmds[n],
                              arg |-> Tail(FindStringSubmatch(cmds[n].Pattern[1], s))]>> ]_vars

(***************************************************************************)
(* C7, amended: the same, provided that no other registered command        *)
(* matches the line.                                                       *)
(***************************************************************************)
C7_PatternDispatch ==
    [][ \A n \in DOMAIN cmds :
          /\ pc = "handle" /\ cmds[n].Pattern # <<>> /\ CmdMatches(cmds[n], s)
          /\ \A o \in DOMAIN cmds \ {n} : ~CmdMatches(cmds[o], s)
          => /\ pc' = "fn"
             /\ match' = <<[cmd |-> cmds[n],
                            arg |-> Tail(FindStringSubmatch(cmds[n].Pattern[1], s))]>> ]_vars

\* The handler of the two-group pattern command runs for the line help with
\* the two captures h and lp, in that order.
C7_Witness ==
    /\ pc = "fn"
    /\ s = sHelp
    /\ match[1].cmd.Fn = "anyFn"
    /\ match[1].arg = << <<"h">>, <<"l", "p">> >>

(***************************************************************************)
(* C8: when the handler returns an error, Handle returns that error and    *)
(* writes nothing; when it succeeds, Handle writes the result followed by  *)
(* a newline, once, and returns no error.                                  *)
(***************************************************************************)
C8_HandlerResult ==
    [][ pc = "fn" /\ pc' # "fn"
            => /\ fnret' # <<>>
               /\ err' = fnret'[1].err
               /\ IF fnret'[1].err # Nil
                  THEN out' = out
                  ELSE out' = Append(out, fnret'[1].res \o <<"\n">>) ]_vars

\* A handler has succeeded and its result was written; the next one has
\* failed with a result that was not written.
C8_Witness ==
    /\ pc = "read"
    /\ reads = 2
    /\ Len(out) = 3
    /\ out[3] = <<"ok", "\n">>
    /\ fnret = <<[res |-> <<"partial">>, err |-> ErrFn]>>
    /\ err = ErrFn

(***************************************************************************)
(* C9: the registry holds one entry for each name among the Add calls and  *)
(* no other, and the entry of a name is the command of the latest Add call *)
(* for that name.                                                          *)
(***************************************************************************)
C9_AddLastWins ==
    /\ DOMAIN cmds = {adds[i].Name : i \in 1..Len(adds)}
    /\ \A n \in DOMAIN cmds : cmds[n] = adds[LatestAdd(n)]

\* A name was added, then another, then the first name again with another command.
C9_Witness ==
    /\ Len(adds) = 3
    /\ adds[1].Name = adds[3].Name
    /\ adds[1] # adds[3]
    /\ adds[2].Name # adds[1].Name
    /\ Cardinality(DOMAIN cmds) = 2

(***************************************************************************)
(* C10: what Help returns is one row for each registered command, in       *)
(* ascending order of Name, whatever the order of the Add calls and of the *)
(* range over the map; two calls with no Add in between return the same.   *)
(***************************************************************************)
C10_HelpSorted ==
    /\ [](lastHelp # <<>> /\ lastHelp[1].nadds = Len(adds)
            => lastHelp[1].text
                 = <<EscCyan>> \o HelpRows(cmds, AscendingNames) \o <<EscReset>>)
    /\ [][ lastHelp # <<>> /\ lastHelp' # <<>> /\ lastHelp'[1].nadds = lastHelp[1].nadds
            => lastHelp'[1].text = lastHelp[1].text ]_vars

\* Help was called for three commands that were added in descending order.
C10_Witness ==
    /\ lastHelp # <<>>
    /\ lastHelp[1].nadds = 3
    /\ Len(adds) = 3
    /\ StrLess(adds[3].Name, adds[2].Name)
    /\ StrLess(adds[2].Name, adds[1].Name)

(***************************************************************************)
(* C11: confirm reads one line and returns true exactly when the read      *)
(* succeeded and the line is y; every other line and every read error      *)
(* gives false.                                                            *)
(***************************************************************************)
C11_ConfirmOnlyY ==
    /\ [](confirmed # <<>>
            => confirmed[1].ret = (confirmed[1].err = Nil /\ confirmed[1].line = sY))
    /\ [][ pc = "fn" /\ pc' = "fn" /\ (confirmed' # confirmed \/ reads' # reads)
            => confirmed' # <<>> /\ reads' = reads + 1 ]_vars

\* confirm has returned false for a line y that came with a read error.
C11_Witness ==
    /\ confirmed # <<>>
    /\ confirmed[1].line = sY
    /\ confirmed[1].err = ErrRead
    /\ confirmed[1].ret = FALSE

(***************************************************************************)
(* C12, as stated: after confirm returned, the prompt of the session is    *)
(* the prompt that was in effect when confirm was called.                  *)
(***************************************************************************)
C12_PromptRestored ==
    confirmed # <<>> => prompt = confirmed[1].before

(***************************************************************************)
(* C13, as stated: when the line read matches no registered command, the   *)
(* unknown-command error is written to the session, and the loop goes on.  *)
(***************************************************************************)
C13_Original ==
    [][ pc = "handle" /\ (\A n \in DOMAIN cmds : ~CmdMatches(cmds[n], s))
            => /\ pc' = "read"
               /\ Len(out') = Len(out) + 1
               /\ \E i \in 1..Len(out'[Len(out')]) : out'[Len(out')][i] = ErrUnknownCommand ]_vars

(***************************************************************************)
(* C13, amended: when the line read matches no registered command, the     *)
(* unknown-command error is logged through klog.Errorf, nothing is written *)
(* to the session, and the loop goes on.                                   *)
(***************************************************************************)
C13_UnknownLogged ==
    [][ pc = "handle" /\ (\A n \in DOMAIN cmds : ~CmdMatches(cmds[n], s))
            => /\ pc' = "read"
               /\ logs' = Append(logs, <<"command error: ", ErrUnknownCommand>>)
               /\ out' = out ]_vars

\* The line set was read with commands registered: the error is the only
\* log entry, the session holds the banner and the help listing only, and
\* the loop is at its next read.
C13_Witness ==
    /\ pc = "read"
    /\ s = sSet
    /\ cmds # <<>>
    /\ logs = << <<"command error: ", ErrUnknownCommand>> >>
    /\ Len(out) = 2

(***************************************************************************)
(* C14: Console writes the banner, then the help listing of the registry,  *)
(* before any read; after that the only writes of Console and Handle are   *)
(* the results of handlers.                                                *)
(***************************************************************************)
C14_BannerThenHelp ==
    /\ [](pc = "init" => out = <<>> /\ reads = 0)
    /\ [][ /\ pc = "init" /\ pc' # "init"
                => /\ reads' = 0
                   /\ out' = << Banner \o <<"\n", "\n">>,
                                <<EscCyan>> \o HelpRows(cmds, AscendingNames)
                                            \o <<EscReset, "\n">> >>
           /\ pc # "init"
                => \/ out' = out
                   \/ /\ pc = "fn"
                      /\ fnret' # <<>>
                      /\ out' = Append(out, fnret'[1].res \o <<"\n">>) ]_vars

\* After the banner and the listing of two or more commands, a handler's
\* result is the third write.
C14_Witness ==
    /\ pc = "read"
    /\ reads = 1
    /\ Cardinality(DOMAIN cmds) >= 2
    /\ Len(out) = 3
    /\ out[1] = Banner \o <<"\n", "\n">>
    /\ out[2][1] = EscCyan
    /\ out[3] = <<"ok", "\n">>

(***************************************************************************)
(* C15: the loop reads only when no handler runs: a handler runs exactly   *)
(* while Handle waits for it, the loop cannot read while it runs, and when *)
(* it returns its result is written before the loop is at a read again.    *)
(***************************************************************************)
C15_Sequential ==
    /\ []((pc = "fn" <=> match # <<>>) /\ Len(match) <= 1)
    /\ [](pc = "fn" => ~ENABLED (\E r \in ReadResults : ReadLine(r)))
    /\ [][ /\ pc # "fn" /\ reads' # reads => pc = "read" /\ match = <<>> /\ reads' = reads + 1
           /\ pc = "fn" /\ pc' = "fn" => s' = s /\ err' = err /\ match' = match
           /\ pc = "fn" /\ pc' # "fn"
                => /\ reads' = reads
                   /\ match' = <<>>
                   /\ fnret' # <<>>
                   /\ fnret'[1].err = Nil => out' = Append(out, fnret'[1].res \o <<"\n">>) ]_vars

\* A handler runs after the first read; the bound would allow another read.
C15_Witness ==
    /\ pc = "fn"
    /\ match # <<>>
    /\ reads = 1
    /\ reads < MaxReads
    /\ confirmed = <<>>

(***************************************************************************)
(* C16: a pattern command whose pattern does not match the line, or        *)
(* matches it with a number of captured groups other than Args, is not     *)
(* dispatched to; with the registry {help, reboot, set-x} the line set     *)
(* gives the unknown-command error and no handler runs.                    *)
(***************************************************************************)
ExampleRegistry == AddTo(AddTo(AddTo(<<>>, cmdHelp), cmdReboot), cmdSetX)

C16_ArgCountMismatch ==
    [][ pc = "handle" =>
          /\ \A n \in DOMAIN cmds :
                /\ cmds[n].Pattern # <<>>
                /\ LET sub == FindStringSubmatch(cmds[n].Pattern[1], s)
                   IN  sub = <<>> \/ Len(sub) - 1 # cmds[n].Args
                => ~(pc' = "fn" /\ match'[1].cmd = cmds[n])
          /\ cmds = ExampleRegistry /\ s = sSet
                => /\ err' = ErrUnknownCommand
                   /\ pc' = "read"
                   /\ match' = <<>>
                   /\ fnret' = fnret ]_vars

\* With the registry {help, reboot, set-x} the line set was read and Handle
\* returned the unknown-command error.
C16_Witness ==
    /\ pc = "read"
    /\ cmds = ExampleRegistry
    /\ s = sSet
    /\ err = ErrUnknownCommand
    /\ fnret = <<>>

(***************************************************************************)
(* C17: a call of Handle calls at most one handler, and that handler is    *)
(* of a registered command that matches the line; when several commands    *)
(* match, each of them can be the one whose handler is called.             *)
(***************************************************************************)
C17_OneMatchingHandler ==
    /\ [][ /\ pc # "fn" /\ pc' = "fn"
                => /\ pc = "handle"
                   /\ Len(match') = 1
                   /\ \E n \in DOMAIN cmds :
                        match'[1].cmd = cmds[n] /\ CmdMatches(cmds[n], s)
           /\ pc = "fn" => pc' \in {"read", "done"} \/ (pc' = "fn" /\ match' = match) ]_vars
    /\ [](pc = "handle" =>
            \A n \in DOMAIN cmds :
                CmdMatches(cmds[n], s)
                    => \E order \in RangeOrders(DOMAIN cmds) :
                          LET found == Scan(cmds, order, 1, s)
                          IN  found # <<>> /\ found[1].cmd = cmds[n])

\* The handler of help runs for the line help, which the registered pattern
\* command any matches too.
C17_Witness ==
    /\ pc = "fn"
    /\ s = sHelp
    /\ match[1].cmd = cmdHelp
    /\ sAny \in DOMAIN cmds
    /\ CmdMatches(cmds[sAny], s)

(***************************************************************************)
(* C18: a line equal to the Name of a pattern command that the command     *)
(* does not match is not dispatched to that command, and gives the         *)
(* unknown-command error when no other command matches.                    *)
(***************************************************************************)
C18_PatternNotByName ==
    [][ \A n \in DOMAIN cmds :
          pc = "handle" /\ cmds[n].Pattern # <<>> /\ n = s /\ ~CmdMatches(cmds[n], s)
            => /\ ~(pc' = "fn" /\ match'[1].cmd = cmds[n])
               /\ (\A o \in DOMAIN cmds \ {n} : ~CmdMatches(cmds[o], s))
                    => err' = ErrUnknownCommand /\ pc' = "read" /\ match' = <<>> ]_vars

\* The line set-x was read with set-x registered, and Handle returned the
\* unknown-command error.
C18_Witness ==
    /\ pc = "read"
    /\ s = sSetX
    /\ sSetX \in DOMAIN cmds
    /\ cmds[sSetX] = cmdSetX
    /\ err = ErrUnknownCommand

(***************************************************************************)
(* C19: the registry changes only in a call of Add, made before Console or *)
(* by a running handler; Help, confirm, Handle and the Console loop leave  *)
(* it as it is.                                                            *)
(***************************************************************************)
C19_RegistryReadOnly ==
    [][ /\ adds' = adds => cmds' = cmds
        /\ cmds' # cmds
              => /\ pc \in {"init", "fn"}
                 /\ pc' = pc
                 /\ Len(adds') = Len(adds) + 1
                 /\ SubSeq(adds', 1, Len(adds)) = adds ]_vars

\* The running handler of help has replaced help in the registry by Add,
\* after Console wrote its help listing.
C19_Witness ==
    /\ pc = "fn"
    /\ match[1].cmd = cmdHelp
    /\ cmds[sHelp] = cmdHelp2
    /\ Len(adds) > lastHelp[1].nadds

====
